---------------------------- MODULE Spec2Model ----------------------------
(***************************************************************************)
(* Model of graphiti_core/prompts/extract_nodes.py: the seven prompt       *)
(* builders, the registry `versions`, and the output contracts.            *)
(*                                                                         *)
(* Text is modelled as a sequence of tokens.  A token is either one        *)
(* literal fragment of a prompt template or one atom of a context value.   *)
(* Concatenation of text is concatenation of sequences, so formatting a    *)
(* value into a template is something an equality can refute.              *)
(*                                                                         *)
(* A builder evaluates its f-string left to right; every `context[key]`    *)
(* is one step of an invocation, so invocations interleave at the dict     *)
(* reads.                                                                  *)
(***************************************************************************)
EXTENDS Naturals, Sequences, FiniteSets

VARIABLES
    context,            \* the caller's context dicts, by object identity
    context0,           \* history: the contexts as the caller assembled them
    versions,           \* the registry: stage name -> builder
    calls,              \* the builder invocations in flight or finished
    answer,             \* the model answer handed to EntityClassification
    decoded             \* what validating `answer` gave

vars == <<context, context0, versions, calls, answer, decoded>>

-----------------------------------------------------------------------------
(* Bounds of the model *)

\* lists held by a context (entity types, episodes, entities) have at most
\* this many elements
MaxLen == 1

\* builder invocations that may be in flight together
NumProcs == 2

\* triples in a model answer
MaxTriples == 2

Procs == 1 .. NumProcs

\* two context objects: the second differs from the first in at most one key
CtxIds == {1, 2}

-----------------------------------------------------------------------------
(* Context keys and their values *)

Keys ==
    {"entity_types", "previous_episodes", "episode_content", "custom_prompt",
     "source_description", "extracted_entities", "node"}

\* keys holding a list of texts; the others hold one text
ListKeys == {"entity_types", "previous_episodes", "extracted_entities"}

RECURSIVE ListsUpTo(_, _)
ListsUpTo(S, n) ==
    IF n = 0 THEN {<<>>}
    ELSE LET shorter == ListsUpTo(S, n - 1)
         IN  shorter \cup {Append(l, x) : l \in shorter, x \in S}

Items(k) ==
    CASE k = "entity_types"       -> {<<"Person">>}
      [] k = "previous_episodes"  -> {<<"Kate:", "hi">>}
      [] k = "extracted_entities" -> {<<"Kate">>}

Values(k) ==
    CASE k \in ListKeys            -> ListsUpTo(Items(k), MaxLen)
      [] k = "episode_content"     -> {<<"Chris:", "call", "mom">>, <<"Chris:", "take", "out", "trash">>}
      [] k = "custom_prompt"       -> {<<>>, <<"Focus", "on", "people">>}
      [] k = "source_description"  -> {<<"crm", "export">>, <<"chat", "log">>}
      [] k = "node"                -> {<<"Kate">>, <<"mom">>}

\* the value a fully assembled context carries for k
Default(k) ==
    CASE k = "entity_types"       -> <<<<"Person">>>>
      [] k = "previous_episodes"  -> <<<<"Kate:", "hi">>>>
      [] k = "extracted_entities" -> <<<<"Kate">>>>
      [] k = "episode_content"    -> <<"Chris:", "call", "mom">>
      [] k = "custom_prompt"      -> <<>>
      [] k = "source_description" -> <<"crm", "export">>
      [] k = "node"               -> <<"Kate">>

\* a fully assembled context dict: a function from the keys to their values
FullContext == [k \in Keys |-> Default(k)]

\* the context dicts a caller may assemble from the default values: any of
\* the keys may be left out
BaseContexts == {[k \in present |-> Default(k)] : present \in SUBSET Keys}

Without(c, k) == [j \in DOMAIN c \ {k} |-> c[j]]

With(c, k, v) == [j \in DOMAIN c \cup {k} |-> IF j = k THEN v ELSE c[j]]

\* the contexts that differ from c in at most one key: its value, or whether
\* it is there at all
Variants(c) ==
    {c} \cup {Without(c, k) : k \in DOMAIN c}
        \cup UNION {{With(c, k, v) : v \in Values(k)} : k \in Keys}

-----------------------------------------------------------------------------
(* Formatting *)

RECURSIVE Join(_, _, _, _)
\* open x1 close sep open x2 close ... : the elements of xs, each between
\* open and close, separated by sep
Join(xs, open, close, sep) ==
    IF xs = <<>> THEN <<>>
    ELSE open \o Head(xs) \o close
           \o (IF Len(xs) = 1 THEN <<>> ELSE sep \o Join(Tail(xs), open, close, sep))

\* str() of a context value, as an f-string replacement field applies it:
\* a text is itself, a list is its repr
PyStr(k, v) ==
    IF k \in ListKeys
    THEN <<"[">> \o Join(v, <<"'">>, <<"'">>, <<",", " ">>) \o <<"]">>
    ELSE v

\* prompt_helpers.to_prompt_json: the canonical JSON text of a value
to_prompt_json(k, v) ==
    IF k \in ListKeys
    THEN <<"[">> \o Join(v, <<"\"">>, <<"\"">>, <<",", " ">>) \o <<"]">>
    ELSE <<"\"">> \o v \o <<"\"">>

\* [ep for ep in context['previous_episodes']]: a fresh list of the same
\* elements in the same order
ListCopy(v) == [i \in 1 .. Len(v) |-> v[i]]

\* what a replacement field of kind conv puts into the text
Convert(conv, k, v) ==
    CASE conv = "str"       -> PyStr(k, v)
      [] conv = "json"      -> to_prompt_json(k, v)
      [] conv = "json_copy" -> to_prompt_json(k, ListCopy(v))

Slot(k, conv) == [key |-> k, conv |-> conv]

\* the string of a summary budget
ToStr(n) ==
    CASE n = 250 -> "250"
      [] n = 400 -> "400"
      [] n = 500 -> "500"

\* values graphiti_core.utils.text_utils may give MAX_SUMMARY_CHARS
SummaryBudgets == {250, 400, 500}

-----------------------------------------------------------------------------
(* The prompt templates.  lits[i] is the literal text before slots[i];     *)
(* tail is the literal text after the last slot.                           *)

\* extract_message without its PREVIOUS MESSAGES block, as the JSON and text
\* adapters are
extract_message_NoHistory ==
    [sys   |-> <<"You are an AI assistant that extracts entity nodes from conversational messages.">>,
     lits  |-> << <<"<ENTITY TYPES>">>,
                  <<"</ENTITY TYPES>", "<CURRENT MESSAGE>">>,
                  <<"</CURRENT MESSAGE>", "Instructions:",
                    "1. Speaker Extraction: Always extract the speaker as the first entity node.",
                    "2. Entity Identification", "3. Entity Classification",
                    "4. Exclusions", "5. Formatting">> >>,
     slots |-> << Slot("entity_types", "str"),
                  Slot("episode_content", "str"),
                  Slot("custom_prompt", "str") >>,
     tail  |-> <<"UNIFIED ACTIVITY EXTRACTION">>]

extract_message ==
    [sys   |-> <<"You are an AI assistant that extracts entity nodes from conversational messages.">>,
     lits  |-> << <<"<ENTITY TYPES>">>,
                  <<"</ENTITY TYPES>", "<PREVIOUS MESSAGES>">>,
                  <<"</PREVIOUS MESSAGES>", "<CURRENT MESSAGE>">>,
                  <<"</CURRENT MESSAGE>", "Instructions:",
                    "1. Speaker Extraction: Always extract the speaker as the first entity node.",
                    "2. Entity Identification", "3. Entity Classification",
                    "4. Exclusions", "5. Formatting">> >>,
     slots |-> << Slot("entity_types", "str"),
                  Slot("previous_episodes", "json_copy"),
                  Slot("episode_content", "str"),
                  Slot("custom_prompt", "str") >>,
     tail  |-> <<"UNIFIED ACTIVITY EXTRACTION">>]

extract_json ==
    [sys   |-> <<"You are an AI assistant that extracts entity nodes from JSON.">>,
     lits  |-> << <<"<ENTITY TYPES>">>,
                  <<"</ENTITY TYPES>", "<SOURCE DESCRIPTION>:">>,
                  <<"</SOURCE DESCRIPTION>", "<JSON>">>,
                  <<"</JSON>">> >>,
     slots |-> << Slot("entity_types", "str"),
                  Slot("source_description", "str"),
                  Slot("episode_content", "str"),
                  Slot("custom_prompt", "str") >>,
     tail  |-> <<"Given the above source description and JSON, extract relevant entities from the provided JSON.",
                 "Guidelines:",
                 "1. Extract all entities that the JSON represents.",
                 "2. Extract all entities mentioned in all other properties throughout the JSON structure",
                 "3. Do NOT extract any properties that contain dates">>]

\* extract_text with the SOURCE DESCRIPTION block of extract_json
extract_text_WithSource ==
    [sys   |-> <<"You are an AI assistant that extracts entity nodes from text.">>,
     lits  |-> << <<"<ENTITY TYPES>">>,
                  <<"</ENTITY TYPES>", "<SOURCE DESCRIPTION>:">>,
                  <<"</SOURCE DESCRIPTION>", "<TEXT>">>,
                  <<"</TEXT>",
                    "Given the above text, extract entities from the TEXT that are explicitly or implicitly mentioned.">> >>,
     slots |-> << Slot("entity_types", "str"),
                  Slot("source_description", "str"),
                  Slot("episode_content", "str"),
                  Slot("custom_prompt", "str") >>,
     tail  |-> <<"Guidelines:",
                 "1. Extract significant entities, concepts, or actors mentioned in the conversation.",
                 "2. Avoid creating nodes for relationships or actions.",
                 "3. Avoid creating nodes for temporal information like dates, times or years",
                 "4. Be as explicit as possible in your node names, using full names and avoiding abbreviations.">>]

extract_text ==
    [sys   |-> <<"You are an AI assistant that extracts entity nodes from text.">>,
     lits  |-> << <<"<ENTITY TYPES>">>,
                  <<"</ENTITY TYPES>", "<TEXT>">>,
                  <<"</TEXT>",
                    "Given the above text, extract entities from the TEXT that are explicitly or implicitly mentioned.">> >>,
     slots |-> << Slot("entity_types", "str"),
                  Slot("episode_content", "str"),
                  Slot("custom_prompt", "str") >>,
     tail  |-> <<"Guidelines:",
                 "1. Extract significant entities, concepts, or actors mentioned in the conversation.",
                 "2. Avoid creating nodes for relationships or actions.",
                 "3. Avoid creating nodes for temporal information like dates, times or years",
                 "4. Be as explicit as possible in your node names, using full names and avoiding abbreviations.">>]

reflexion ==
    [sys   |-> <<"You are an AI assistant that determines which entities have not been extracted from the given context">>,
     lits  |-> << <<"<PREVIOUS MESSAGES>">>,
                  <<"</PREVIOUS MESSAGES>", "<CURRENT MESSAGE>">>,
                  <<"</CURRENT MESSAGE>", "<EXTRACTED ENTITIES>">> >>,
     slots |-> << Slot("previous_episodes", "json_copy"),
                  Slot("episode_content", "str"),
                  Slot("extracted_entities", "str") >>,
     tail  |-> <<"</EXTRACTED ENTITIES>",
                 "determine if any entities haven't been extracted.">>]

\* classify_nodes without the guideline that allows None
classify_nodes_NoNone ==
    [sys   |-> <<"You are an AI assistant that classifies entity nodes given the context from which they were extracted">>,
     lits  |-> << <<"<PREVIOUS MESSAGES>">>,
                  <<"</PREVIOUS MESSAGES>", "<CURRENT MESSAGE>">>,
                  <<"</CURRENT MESSAGE>", "<EXTRACTED ENTITIES>">>,
                  <<"</EXTRACTED ENTITIES>", "<ENTITY TYPES>">> >>,
     slots |-> << Slot("previous_episodes", "json_copy"),
                  Slot("episode_content", "str"),
                  Slot("extracted_entities", "str"),
                  Slot("entity_types", "str") >>,
     tail  |-> <<"</ENTITY TYPES>",
                 "classify the extracted entities.",
                 "Guidelines:",
                 "1. Each entity must have exactly one type",
                 "2. Only use the provided ENTITY TYPES as types, do not use additional types to classify entities.">>]

classify_nodes ==
    [sys   |-> <<"You are an AI assistant that classifies entity nodes given the context from which they were extracted">>,
     lits  |-> << <<"<PREVIOUS MESSAGES>">>,
                  <<"</PREVIOUS MESSAGES>", "<CURRENT MESSAGE>">>,
                  <<"</CURRENT MESSAGE>", "<EXTRACTED ENTITIES>">>,
                  <<"</EXTRACTED ENTITIES>", "<ENTITY TYPES>">> >>,
     slots |-> << Slot("previous_episodes", "json_copy"),
                  Slot("episode_content", "str"),
                  Slot("extracted_entities", "str"),
                  Slot("entity_types", "str") >>,
     tail  |-> <<"</ENTITY TYPES>",
                 "classify the extracted entities.",
                 "Guidelines:",
                 "1. Each entity must have exactly one type",
                 "2. Only use the provided ENTITY TYPES as types, do not use additional types to classify entities.",
                 "3. If none of the provided entity types accurately classify an extracted node, the type should be set to None">>]

extract_attributes ==
    [sys   |-> <<"You are a helpful assistant that extracts entity properties from the provided text.">>,
     lits  |-> << <<"<MESSAGES>">>,
                  <<>>,
                  <<"</MESSAGES>",
                    "extract attributes ONLY for that ENTITY.",
                    "Guidelines:",
                    "3. Summaries must be no longer than", "400", "characters.",
                    "4. PRESERVE domain-specific vocabulary",
                    "<ENTITY>">> >>,
     slots |-> << Slot("previous_episodes", "json"),
                  Slot("episode_content", "json"),
                  Slot("node", "str") >>,
     tail  |-> <<"</ENTITY>">>]

extract_summary ==
    [sys   |-> <<"You are a helpful assistant that extracts entity summaries from the provided text.">>,
     lits  |-> << <<"Given the MESSAGES and the ENTITY, update the summary",
                    "{summary_instructions}",
                    "<MESSAGES>">>,
                  <<>>,
                  <<"</MESSAGES>", "<ENTITY>">> >>,
     slots |-> << Slot("previous_episodes", "json"),
                  Slot("episode_content", "json"),
                  Slot("node", "str") >>,
     tail  |-> <<"</ENTITY>">>]

\* the builder functions by name
Builder(fn) ==
    CASE fn = "extract_message"    -> extract_message
      [] fn = "extract_json"       -> extract_json
      [] fn = "extract_text"       -> extract_text
      [] fn = "reflexion"          -> reflexion
      [] fn = "classify_nodes"     -> classify_nodes
      [] fn = "extract_attributes" -> extract_attributes
      [] fn = "extract_summary"    -> extract_summary

\* the keys of class Versions
StageNames ==
    {"extract_message", "extract_json", "extract_text", "reflexion",
     "classify_nodes", "extract_attributes", "extract_summary"}

\* the registry with two stages bound to each other's builder
VersionsInit_Swapped ==
    [s \in StageNames |->
        CASE s = "extract_message"    -> "extract_message"
          [] s = "extract_json"       -> "extract_json"
          [] s = "extract_text"       -> "extract_text"
          [] s = "reflexion"          -> "reflexion"
          [] s = "extract_summary"    -> "classify_nodes"
          [] s = "classify_nodes"     -> "extract_summary"
          [] s = "extract_attributes" -> "extract_attributes"]

\* the module-level dict `versions`
VersionsInit ==
    [s \in StageNames |->
        CASE s = "extract_message"    -> "extract_message"
          [] s = "extract_json"       -> "extract_json"
          [] s = "extract_text"       -> "extract_text"
          [] s = "reflexion"          -> "reflexion"
          [] s = "extract_summary"    -> "extract_summary"
          [] s = "classify_nodes"     -> "classify_nodes"
          [] s = "extract_attributes" -> "extract_attributes"]

\* the keys fn subscripts the context with
ReadKeys(fn) == {Builder(fn).slots[i].key : i \in 1 .. Len(Builder(fn).slots)}

-----------------------------------------------------------------------------
(* Builder invocations *)

\* context.get(k, ''): a default in place of the KeyError
Subscript_Get(c, k) ==
    IF k \in DOMAIN c
    THEN [ok |-> TRUE, val |-> c[k]]
    ELSE [ok |-> TRUE, val |-> <<>>]

\* context[k]: the value when the key is there, KeyError when it is not
Subscript(c, k) ==
    IF k \in DOMAIN c
    THEN [ok |-> TRUE, val |-> c[k]]
    ELSE [ok |-> FALSE, val |-> <<>>]

\* context.pop(k): the read takes the key out of the caller's dict
ContextAfterRead_Pop(c, k) == Without(c, k)

\* the dict after context[k] was evaluated: a subscript read leaves it as is
ContextAfterRead(c, k) == c

\* both messages tagged with the role of the second
Messages_BothUser(sys, user) ==
    << [role |-> "user", content |-> sys],
       [role |-> "user", content |-> user] >>

\* the list a builder returns
Messages(sys, user) ==
    << [role |-> "system", content |-> sys],
       [role |-> "user", content |-> user] >>

Idle ==
    [st |-> "idle", fn |-> "", cid |-> 0, pc |-> 0,
     acc |-> <<>>, result |-> <<>>, err |-> ""]

\* the caller looks a stage up in the registry and calls the builder with
\* one of its context dicts
Call(p) ==
    /\ calls[p].st = "idle"
    /\ \E stage \in DOMAIN versions, cid \in CtxIds :
          calls' = [calls EXCEPT ![p] =
                       [st |-> "running", fn |-> versions[stage], cid |-> cid,
                        pc |-> 1, acc |-> <<>>, result |-> <<>>, err |-> ""]]
    /\ UNCHANGED <<context, context0, versions, answer, decoded>>

\* the next replacement field of the f-string: its key is in the dict
Eval(p) ==
    LET c == calls[p]
        b == Builder(c.fn)
    IN  /\ c.st = "running"
        /\ c.pc <= Len(b.slots)
        /\ LET slot == b.slots[c.pc]
               r    == Subscript(context[c.cid], slot.key)
           IN  /\ r.ok
               /\ calls' = [calls EXCEPT ![p] =
                               [c EXCEPT !.pc = c.pc + 1,
                                         !.acc = c.acc \o b.lits[c.pc]
                                                   \o Convert(slot.conv, slot.key, r.val)]]
               /\ context' = [context EXCEPT ![c.cid] = ContextAfterRead(@, slot.key)]
        /\ UNCHANGED <<context0, versions, answer, decoded>>

\* the next replacement field of the f-string: its key is not in the dict,
\* the KeyError leaves the builder and nothing is returned
RaiseKeyError(p) ==
    LET c == calls[p]
        b == Builder(c.fn)
    IN  /\ c.st = "running"
        /\ c.pc <= Len(b.slots)
        /\ LET slot == b.slots[c.pc]
               r    == Subscript(context[c.cid], slot.key)
           IN  /\ ~r.ok
               /\ calls' = [calls EXCEPT ![p] =
                               [c EXCEPT !.st = "raised", !.acc = <<>>,
                                         !.err = slot.key]]
        /\ UNCHANGED <<context, context0, versions, answer, decoded>>

\* the f-string is complete: the two messages are built and returned
Return(p) ==
    LET c == calls[p]
        b == Builder(c.fn)
    IN  /\ c.st = "running"
        /\ c.pc > Len(b.slots)
        /\ calls' = [calls EXCEPT ![p] =
                        [c EXCEPT !.st = "returned", !.acc = <<>>,
                                  !.result = Messages(b.sys, c.acc \o b.tail)]]
        /\ UNCHANGED <<context, context0, versions, answer, decoded>>

-----------------------------------------------------------------------------
(* Output contracts *)

\* EntitySummary.summary's description
EntitySummaryDescription(budget) ==
    <<"Summary containing the important information about the entity.",
      "Under", ToStr(budget), "characters.">>

\* a field of a decoded JSON object: absent, null, a string or something
\* else (a nested object)
RawField(t, v) == [t |-> t, v |-> v]

RawTriples ==
    {[uuid |-> u, name |-> n, entity_type |-> e] :
        u \in {RawField("absent", ""), RawField("str", "u1")},
        n \in {RawField("str", "Kate"), RawField("obj", "")},
        e \in {RawField("absent", ""), RawField("none", ""),
               RawField("str", "Person"), RawField("str", "Alien"),
               RawField("obj", "")}}

\* the entity_classifications lists a model may answer with
Answers == ListsUpTo(RawTriples, MaxTriples)

\* the triple with entity_type typed Any: whatever the answer holds is kept
EntityClassificationTriple_AnyType(raw) ==
    IF /\ raw.uuid.t = "str"
       /\ raw.name.t = "str"
    THEN [ok |-> TRUE,
          val |-> [uuid |-> raw.uuid.v, name |-> raw.name.v,
                   entity_type |-> IF raw.entity_type.t = "absent"
                                   THEN RawField("none", "")
                                   ELSE raw.entity_type]]
    ELSE [ok |-> FALSE,
          val |-> [uuid |-> "", name |-> "", entity_type |-> RawField("none", "")]]

\* EntityClassificationTriple: uuid and name are required strings,
\* entity_type is a string or None and defaults to None
EntityClassificationTriple(raw) ==
    IF /\ raw.uuid.t = "str"
       /\ raw.name.t = "str"
       /\ raw.entity_type.t \in {"absent", "none", "str"}
    THEN [ok |-> TRUE,
          val |-> [uuid |-> raw.uuid.v, name |-> raw.name.v,
                   entity_type |-> IF raw.entity_type.t = "str"
                                   THEN RawField("str", raw.entity_type.v)
                                   ELSE RawField("none", "")]]
    ELSE [ok |-> FALSE,
          val |-> [uuid |-> "", name |-> "", entity_type |-> RawField("none", "")]]

\* EntityClassification: a list of triples, every one of them valid
EntityClassification(raws) ==
    IF \A i \in 1 .. Len(raws) : EntityClassificationTriple(raws[i]).ok
    THEN [st |-> "accepted",
          value |-> [i \in 1 .. Len(raws) |-> EntityClassificationTriple(raws[i]).val]]
    ELSE [st |-> "rejected", value |-> <<>>]

\* the client decodes the model's answer to one classification call into
\* the classification contract
Decode ==
    /\ decoded.st = "none"
    /\ \E a \in Answers :
          /\ answer' = a
          /\ decoded' = EntityClassification(a)
    /\ UNCHANGED <<context, context0, versions, calls>>

-----------------------------------------------------------------------------
(* Specifications *)

\* the keys the adapters' contract names, read by most of the builders
CoreKeys == {"entity_types", "previous_episodes", "episode_content"}

\* two context dicts, the first fully assembled, the second the same or
\* lacking one of the core keys; no builder has been called
Init ==
    /\ context0 \in {c \in [CtxIds -> {FullContext} \cup {Without(FullContext, k) : k \in CoreKeys}] :
                        c[1] = FullContext}
    /\ context = context0
    /\ versions = VersionsInit
    /\ calls = [p \in Procs |-> Idle]
    /\ answer = <<>>
    /\ decoded = [st |-> "none", value |-> <<>>]

\* builder invocations, interleaved at their dict reads
Next == \E p \in Procs : Call(p) \/ Eval(p) \/ RaiseKeyError(p) \/ Return(p)

Spec == Init /\ [][Next]_vars

\* any context dict, and a second one that differs from it in at most one key
InitPair ==
    /\ context0 \in {c \in [CtxIds -> UNION {Variants(b) : b \in BaseContexts}] :
                        c[1] \in BaseContexts /\ c[2] \in Variants(c[1])}
    /\ context = context0
    /\ versions = VersionsInit
    /\ calls = [p \in Procs |-> Idle]
    /\ answer = <<>>
    /\ decoded = [st |-> "none", value |-> <<>>]

\* the second invocation waits for the first to end
InTurn(p) == p = 2 => calls[1].st \in {"returned", "raised"}

\* two builder invocations one after the other: the second is called when
\* the first has ended
NextPair ==
    \E p \in {1, 2} :
        \/ InTurn(p) /\ Call(p)
        \/ InTurn(p) /\ Eval(p)
        \/ InTurn(p) /\ RaiseKeyError(p)
        \/ InTurn(p) /\ Return(p)

SpecPair == InitPair /\ [][NextPair]_vars

\* the classification call: one context dict, fully assembled or off it in
\* one key, and the answer to it
InitContract ==
    /\ context0 \in {c \in [CtxIds -> Variants(FullContext)] : c[2] = c[1]}
    /\ context = context0
    /\ versions = VersionsInit
    /\ calls = [p \in Procs |-> Idle]
    /\ answer = <<>>
    /\ decoded = [st |-> "none", value |-> <<>>]

NextContract == Decode

SpecContract == InitContract /\ [][NextContract]_vars

-----------------------------------------------------------------------------
(* Vocabulary of the properties *)

Finished(p) == calls[p].st \in {"returned", "raised"}

Returned(p) == calls[p].st = "returned"

\* the context dict invocation p was called with, as the caller built it
Ctx0(p) == context0[calls[p].cid]

\* p's user instruction
User(p) == calls[p].result[2].content

\* the system/user pair
IsPair(ms) ==
    /\ Len(ms) = 2
    /\ ms[1].role = "system"
    /\ ms[2].role = "user"
    /\ \A i \in 1 .. Len(ms) : ms[i].role \in {"system", "user"}

\* t occurs in s as a contiguous run of tokens
Contains(s, t) ==
    /\ Len(t) <= Len(s)
    /\ \E i \in 0 .. (Len(s) - Len(t)) : SubSeq(s, i + 1, i + Len(t)) = t

\* c1 and c2 differ at key k (in its value or in its presence) and nowhere else
DiffersOnlyAt(c1, c2, k) ==
    /\ c1 /= c2
    /\ Without(c1, k) = Without(c2, k)

\* the three modality adapters
Modality == {"extract_message", "extract_json", "extract_text"}

RECURSIVE RunAlone(_, _, _, _)
\* the outcome of builder fn run from start to end on context c with nothing
\* else running: i is the replacement field reached, acc the text so far
RunAlone(fn, c, i, acc) ==
    LET b == Builder(fn)
    IN  IF i > Len(b.slots)
        THEN [st |-> "returned", result |-> Messages(b.sys, acc \o b.tail), err |-> ""]
        ELSE LET r == Subscript(c, b.slots[i].key)
             IN  IF r.ok
                 THEN RunAlone(fn, c, i + 1,
                               acc \o b.lits[i] \o Convert(b.slots[i].conv, b.slots[i].key, r.val))
                 ELSE [st |-> "raised", result |-> <<>>, err |-> b.slots[i].key]

Outcome(p) == [st |-> calls[p].st, result |-> calls[p].result, err |-> calls[p].err]

-----------------------------------------------------------------------------
(* C1: every builder, called with a context that holds every key the       *)
(* builder reads, returns exactly two messages, the first of role system   *)
(* and the second of role user, and no message of any other role.          *)
C1_SystemUserPair ==
    \A p \in Procs :
        (Finished(p) /\ ReadKeys(calls[p].fn) \subseteq DOMAIN Ctx0(p))
            => (Returned(p) /\ IsPair(calls[p].result))

\* two different builders have returned on contexts holding all they read
C1_Witness ==
    \E p, q \in Procs :
        /\ Returned(p) /\ Returned(q)
        /\ calls[p].fn = "extract_message" /\ calls[q].fn = "extract_attributes"
        /\ ReadKeys(calls[p].fn) \subseteq DOMAIN Ctx0(p)
        /\ ReadKeys(calls[q].fn) \subseteq DOMAIN Ctx0(q)

(* C2: a builder called with a context that lacks a key it reads ends in   *)
(* the missing-key error: no message list is returned, not even a partial  *)
(* one, no default stands in for the key, and the context is unchanged.    *)
C2_MissingKeyRaises ==
    /\ \A p \in Procs :
          (Finished(p) /\ ~(ReadKeys(calls[p].fn) \subseteq DOMAIN Ctx0(p)))
              => /\ calls[p].st = "raised"
                 /\ calls[p].result = <<>>
                 /\ calls[p].err \in ReadKeys(calls[p].fn) \ DOMAIN Ctx0(p)
                 /\ context[calls[p].cid] = Ctx0(p)
    /\ \A p \in Procs : ~Returned(p) => calls[p].result = <<>>

\* a builder has raised after reading some keys and then missing one
C2_Witness ==
    \E p \in Procs :
        /\ calls[p].st = "raised"
        /\ calls[p].fn = "reflexion"
        /\ calls[p].err = "extracted_entities"
        /\ calls[p].pc = 3

(* C3 (as claimed): a modality adapter called with entity_types,           *)
(* previous_episodes and episode_content (and source_description for the   *)
(* JSON adapter) but without custom_prompt returns the system/user pair.   *)
C3_CustomPromptOptional ==
    \A p \in Procs :
        ( /\ Finished(p)
          /\ calls[p].fn \in Modality
          /\ {"entity_types", "previous_episodes", "episode_content"} \subseteq DOMAIN Ctx0(p)
          /\ (calls[p].fn = "extract_json" => "source_description" \in DOMAIN Ctx0(p))
          /\ "custom_prompt" \notin DOMAIN Ctx0(p) )
            => (Returned(p) /\ IsPair(calls[p].result))

(* C4 (as claimed): each modality adapter embeds entity_types, the         *)
(* serialized previous_episodes and episode_content in its user            *)
(* instruction, so two contexts that differ in one of these three fields   *)
(* give different user instructions.                                       *)
C4_EmbedsAllThree ==
    /\ \A p \in Procs :
          (Returned(p) /\ calls[p].fn \in Modality
             /\ {"entity_types", "previous_episodes", "episode_content"} \subseteq DOMAIN Ctx0(p))
              => /\ Contains(User(p), PyStr("entity_types", Ctx0(p)["entity_types"]))
                 /\ Contains(User(p), to_prompt_json("previous_episodes", Ctx0(p)["previous_episodes"]))
                 /\ Contains(User(p), PyStr("episode_content", Ctx0(p)["episode_content"]))
    /\ \A p, q \in Procs :
          \A k \in {"entity_types", "previous_episodes", "episode_content"} :
              (Returned(p) /\ Returned(q) /\ calls[p].fn = calls[q].fn
                 /\ calls[p].fn \in Modality /\ DiffersOnlyAt(Ctx0(p), Ctx0(q), k))
                  => User(p) /= User(q)

\* the fields of the context an adapter puts into its user instruction
Embedded(fn) ==
    IF fn = "extract_message"
    THEN {"entity_types", "previous_episodes", "episode_content"}
    ELSE {"entity_types", "episode_content"}

(* C4 (amended): extract_message embeds entity_types, the serialized       *)
(* previous_episodes and episode_content; extract_json and extract_text    *)
(* embed entity_types and episode_content only.  Two contexts that differ  *)
(* in exactly one embedded field give different user instructions, and     *)
(* for extract_json and extract_text two contexts that differ only in      *)
(* previous_episodes give the same user instruction.                       *)
C4_EmbedsWhatItReads ==
    /\ \A p \in Procs :
          (Returned(p) /\ calls[p].fn \in Modality)
              => /\ "entity_types" \in DOMAIN Ctx0(p)
                 /\ Contains(User(p), PyStr("entity_types", Ctx0(p)["entity_types"]))
                 /\ "episode_content" \in DOMAIN Ctx0(p)
                 /\ Contains(User(p), PyStr("episode_content", Ctx0(p)["episode_content"]))
                 /\ calls[p].fn = "extract_message"
                      => /\ "previous_episodes" \in DOMAIN Ctx0(p)
                         /\ Contains(User(p), to_prompt_json("previous_episodes",
                                                             Ctx0(p)["previous_episodes"]))
    /\ \A p, q \in Procs :
          (Returned(p) /\ Returned(q) /\ calls[p].fn = calls[q].fn /\ calls[p].fn \in Modality)
              => /\ \A k \in Embedded(calls[p].fn) :
                       DiffersOnlyAt(Ctx0(p), Ctx0(q), k) => User(p) /= User(q)
                 /\ (calls[p].fn /= "extract_message"
                       /\ DiffersOnlyAt(Ctx0(p), Ctx0(q), "previous_episodes"))
                      => User(p) = User(q)

\* extract_message has returned on two contexts that differ in their
\* previous_episodes alone
C4_Witness ==
    \E p, q \in Procs :
        /\ Returned(p) /\ Returned(q)
        /\ calls[p].fn = "extract_message" /\ calls[q].fn = "extract_message"
        /\ DiffersOnlyAt(Ctx0(p), Ctx0(q), "previous_episodes")

\* the builders the specification names as the consumers of a key
Readers(k) ==
    CASE k = "source_description" -> {"extract_json"}
      [] k = "extracted_entities" -> {"reflexion", "classify_nodes"}
      [] k = "node"               -> {"extract_attributes", "extract_summary"}

StageKeys == {"source_description", "extracted_entities", "node"}

(* C5: source_description is read by extract_json alone, extracted_entities *)
(* by reflexion and classify_nodes alone, node by extract_attributes and   *)
(* extract_summary alone; any other builder gives the same outcome on two  *)
(* contexts that differ only in such a key, its absence included.          *)
C5_KeysReadByTheirStages ==
    /\ \A p \in Procs : \A k \in StageKeys :
          (Finished(p) /\ calls[p].fn \in Readers(k) /\ k \notin DOMAIN Ctx0(p)
             /\ ReadKeys(calls[p].fn) \ {k} \subseteq DOMAIN Ctx0(p))
              => (calls[p].st = "raised" /\ calls[p].err = k)
    /\ \A p, q \in Procs : \A k \in StageKeys :
          (Finished(p) /\ Finished(q) /\ calls[p].fn = calls[q].fn
             /\ calls[p].fn \notin Readers(k) /\ DiffersOnlyAt(Ctx0(p), Ctx0(q), k))
              => Outcome(p) = Outcome(q)

\* extract_text has returned on a context with and on one without
\* source_description, and extract_json has failed for lack of it
C5_Witness ==
    \E p, q \in Procs :
        /\ Returned(p) /\ Returned(q)
        /\ calls[p].fn = "extract_text" /\ calls[q].fn = "extract_text"
        /\ DiffersOnlyAt(Ctx0(p), Ctx0(q), "source_description")
        /\ "source_description" \notin DOMAIN Ctx0(q)

\* the token that follows marker in text s, "" when there is none
LimitAfter(s, marker) ==
    IF \E i \in 1 .. Len(s) - 1 : s[i] = marker
    THEN s[(CHOOSE i \in 1 .. Len(s) - 1 : s[i] = marker) + 1]
    ELSE ""

(* C7 (as claimed): whatever MAX_SUMMARY_CHARS is, the limit stated in the *)
(* EntitySummary description and the limit stated for the summary          *)
(* attribute in the extract_attributes instruction are both that constant. *)
C7_SharedSummaryBudget ==
    \A MAX_SUMMARY_CHARS \in SummaryBudgets : \A p \in Procs :
        (Returned(p) /\ calls[p].fn = "extract_attributes")
            => /\ LimitAfter(EntitySummaryDescription(MAX_SUMMARY_CHARS), "Under")
                    = ToStr(MAX_SUMMARY_CHARS)
               /\ LimitAfter(User(p), "3. Summaries must be no longer than")
                    = ToStr(MAX_SUMMARY_CHARS)

(* C8: in every interleaving of builder invocations each invocation ends   *)
(* with exactly the outcome it has when run alone on its context, and      *)
(* neither a context nor the registry is modified.                         *)
C8_InterleavingIsInvisible ==
    /\ context = context0
    /\ versions = VersionsInit
    /\ \A p \in Procs :
          Finished(p) => Outcome(p) = RunAlone(calls[p].fn, Ctx0(p), 1, <<>>)

\* two invocations on the same context dict, one finished while the other
\* was in the middle of its reads
C8_Witness ==
    \E p, q \in Procs :
        /\ p /= q
        /\ calls[p].cid = calls[q].cid
        /\ Returned(p) /\ calls[p].fn = "extract_attributes"
        /\ calls[q].st = "running" /\ calls[q].fn = "extract_summary"
        /\ calls[q].pc = 2

(* C9: versions maps exactly the seven stage names, each to the builder of *)
(* the same name, and no builder invocation changes it.                    *)
C9_RegistryTotalAndStable ==
    /\ DOMAIN versions =
          {"extract_message", "extract_json", "extract_text", "reflexion",
           "classify_nodes", "extract_attributes", "extract_summary"}
    /\ \A s \in DOMAIN versions : versions[s] = s
    /\ \A p \in Procs : calls[p].st /= "idle" => calls[p].fn \in DOMAIN versions

\* builders looked up in the registry have run to their end
C9_Witness ==
    \E p, q \in Procs :
        /\ p /= q
        /\ Returned(p) /\ calls[p].fn = "extract_summary"
        /\ calls[q].st = "raised" /\ calls[q].fn = "classify_nodes"

Guidelines ==
    {"1. Each entity must have exactly one type",
     "2. Only use the provided ENTITY TYPES as types, do not use additional types to classify entities.",
     "3. If none of the provided entity types accurately classify an extracted node, the type should be set to None"}

(* C10: with an empty entity_types (and previous_episodes, episode_content *)
(* and extracted_entities present) classify_nodes returns the system/user  *)
(* pair, and whatever entity_types is its user instruction carries the     *)
(* three guidelines: one type per entity, only the provided types, None    *)
(* when no provided type fits.                                             *)
C10_EmptyCatalogClassifies ==
    \A p \in Procs :
        /\ ( /\ Finished(p) /\ calls[p].fn = "classify_nodes"
             /\ {"previous_episodes", "episode_content", "extracted_entities",
                 "entity_types"} \subseteq DOMAIN Ctx0(p)
             /\ Ctx0(p)["entity_types"] = <<>> )
               => (Returned(p) /\ IsPair(calls[p].result))
        /\ (Returned(p) /\ calls[p].fn = "classify_nodes")
               => \A g \in Guidelines : Contains(User(p), <<g>>)

\* classify_nodes has returned on an empty catalog
C10_Witness ==
    \E p \in Procs :
        /\ Returned(p) /\ calls[p].fn = "classify_nodes"
        /\ Ctx0(p)["entity_types"] = <<>>
        /\ Contains(User(p), <<"<ENTITY TYPES>", "[", "]", "</ENTITY TYPES>">>)

\* the type names of a context's catalog
TypeNames(c) == {c["entity_types"][i][1] : i \in 1 .. Len(c["entity_types"])}

=============================================================================
